---------------------------- MODULE Spec2Model ----------------------------
(***************************************************************************)
(* A model of nlp_preprocessors/Tokenizer.py: the hashing text facades,    *)
(* the 1D signal facades, the 2D image facade and the construction of the  *)
(* random projection basis from NumPy's process-wide generator.            *)
(*                                                                         *)
(* An operation's result is a record [outcome, value]: outcome "ok" with   *)
(* the returned value, or the name of the Python exception that ends it.   *)
(***************************************************************************)
EXTENDS Integers, Sequences, FiniteSets, TLC

VARIABLES self, last, rng, threads

vars == <<self, last, rng, threads>>

(***************************************************************************)
(* Bounds of the model.                                                    *)
(***************************************************************************)
MaxEmbeddings == 8
MaxLen == 4
MaxWindow == 3
MaxStride == 3
MaxBatch == 2
MaxPositional == 3
MaxWord == 3

(***************************************************************************)
(* Python helpers.                                                         *)
(***************************************************************************)
Return(v) == [outcome |-> "ok", value |-> v]
Raise(e) == [outcome |-> e, value |-> <<>>]

Max(a, b) == IF a >= b THEN a ELSE b
Min(a, b) == IF a <= b THEN a ELSE b

\* Python's a % n for n # 0: the result has the sign of the divisor.
PyMod(a, n) == IF n > 0 THEN a % n ELSE 0 - ((0 - a) % (0 - n))

\* math.ceil(a / s) for integers a and s > 0 (true division, then ceiling).
CeilDiv(a, s) == 0 - ((0 - a) \div s)

(***************************************************************************)
(* hashlib.sha3_224(bytes(token, "utf8")).hexdigest() for the tokens used: *)
(* the 56 hexadecimal digits of the digest, held four digits to a number   *)
(* (14 numbers below 65536, most significant first).                       *)
(***************************************************************************)
Tokens == {"a", "hello", "the", "cat", "the cat", "cat a the"}

sha3_224_hexdigest(token) ==
    CASE token = "a" ->  \* 9e86ff69557ca95f405f081269685b38e3a819b309ee942f482b6a8b
           <<40582, 65385, 21884, 43359, 16479, 2066, 26984,
             23352, 58280, 6579, 2542, 37935, 18475, 27275>>
      [] token = "hello" ->  \* b87f88c72702fff1748e58b87e9141a42c0dbedc29a78cb0d4a5cd81
           <<47231, 35015, 9986, 65521, 29838, 22712, 32401,
             16804, 11277, 48860, 10663, 36016, 54437, 52609>>
      [] token = "the" ->  \* 0c8e7cec2a7f3b3c022f250a263114e22929e6307c814d64c3ab70ce
           <<3214, 31980, 10879, 15164, 559, 9482, 9777,
             5346, 10537, 58928, 31873, 19812, 50091, 28878>>
      [] token = "cat" ->  \* 447c857980c93d613b8bd6897c05bfd0621245139f021aaa6b57830a
           <<17532, 34169, 32969, 15713, 15243, 54921, 31749,
             49104, 25106, 17683, 40706, 6826, 27479, 33546>>
      [] token = "the cat" ->  \* 64cdf9b664daf4ed8db2e7ab62c45c887dd31b3279ba186ae1f78e4a
           <<25805, 63926, 25818, 62701, 36274, 59307, 25284,
             23688, 32211, 6962, 31162, 6250, 57847, 36426>>
      [] token = "cat a the" ->  \* 0935f281d4bdf990d3042fb7db4e3d1b1282e0d51874015c2c994d79
           <<2357, 62081, 54461, 63888, 54020, 12215, 56142,
             15643, 4738, 57557, 6260, 348, 11417, 19833>>

\* int(hex, 16) % n for n > 0, four digits at a time: the first k numbers,
\* reduced.
RECURSIVE HexModUpTo(_, _, _)
HexModUpTo(hex, k, n) ==
    IF k = 0 THEN 0 ELSE (HexModUpTo(hex, k - 1, n) * 65536 + hex[k]) % n

\* int(hex, 16) % n as Python computes it for any n # 0.
HexMod(hex, n) ==
    IF n > 0 THEN HexModUpTo(hex, Len(hex), n)
    ELSE LET r == HexModUpTo(hex, Len(hex), 0 - n)
         IN  0 - (((0 - n) - r) % (0 - n))

(***************************************************************************)
(* TextTokenizer and HashingBasedTokenizer.                                *)
(***************************************************************************)
special_tokens == <<"<PAD>", "<CLS>", "<SEP>", "<MASK>", "<UNK>">>

\* BaseTokenizer.__init__ and TextTokenizer.__init__: the fields are stored
\* as given, nothing is validated.
TextTokenizer_init(kind, num_embeddings, padding_idx, input_word) ==
    [kind |-> kind, state |-> "ready",
     num_embeddings |-> num_embeddings,
     padding_idx |-> padding_idx,
     input_word |-> input_word]

HashingBasedTokenizer_numerize(obj, token) ==
    IF obj.num_embeddings = 0 THEN Raise("ZeroDivisionError")
    ELSE LET hash_number == HexMod(sha3_224_hexdigest(token), obj.num_embeddings)
         IN  Return(Max(hash_number, obj.padding_idx + Len(special_tokens)))

(***************************************************************************)
(* BaseTokenizer.__call__ for the hashing facades: one inner list per      *)
(* input, one id per token, built by appending in iteration order.  An     *)
(* exception raised for any token ends the whole call.                     *)
(***************************************************************************)
\* nltk's word_tokenize on the strings of the model: the words of the
\* string, in order.
word_tokenize(string) ==
    CASE string = "the cat" -> <<"the", "cat">>
      [] string = "cat a the" -> <<"cat", "a", "the">>
      [] OTHER -> <<string>>

\* WordTokenizer.tokenize: the words of the string, or, with input_word, the
\* whole string as the only token.
WordTokenizer_tokenize(obj, string) ==
    IF ~obj.input_word THEN word_tokenize(string) ELSE <<string>>

\* [self.numerize(token) for token in tokens], from token k on, onto acc.
RECURSIVE NumerizeEach(_, _, _, _)
NumerizeEach(obj, tokens, k, acc) ==
    IF k > Len(tokens) THEN Return(acc)
    ELSE LET r == HashingBasedTokenizer_numerize(obj, tokens[k])
         IN  IF r.outcome # "ok" THEN r
             ELSE NumerizeEach(obj, tokens, k + 1, Append(acc, r.value))

\* The pipeline of one input of a hashing facade.
WordTokenizer_one(obj, inp) ==
    NumerizeEach(obj, WordTokenizer_tokenize(obj, inp), 1, <<>>)

RECURSIVE BaseTokenizer_call_from(_, _, _, _)
BaseTokenizer_call_from(obj, inputs, i, acc) ==
    IF i > Len(inputs) THEN Return(acc)
    ELSE LET r == WordTokenizer_one(obj, inputs[i])
         IN  IF r.outcome # "ok" THEN r
             ELSE BaseTokenizer_call_from(obj, inputs, i + 1, Append(acc, r.value))

BaseTokenizer_call(obj, inputs) == BaseTokenizer_call_from(obj, inputs, 1, <<>>)

(***************************************************************************)
(* PositionalCharacterLevelWordTokenizer and its two positionize policies. *)
(***************************************************************************)
language_options == {"en", "th"}

\* PositionalCharacterLevelWordTokenizer.__init__: the text fields (input_word
\* at its default) and max_positional, stored as given.
PositionalTokenizer_init(kind, num_embeddings, padding_idx, max_positional) ==
    [kind |-> kind, state |-> "ready",
     num_embeddings |-> num_embeddings,
     padding_idx |-> padding_idx,
     input_word |-> FALSE,
     max_positional |-> max_positional]

\* RoughPositionalCharacterLevelWordTokenizer.__init__: the assert on the
\* language comes first and ends the construction with AssertionError.
RoughPositionalTokenizer_init(num_embeddings, padding_idx, max_positional, language) ==
    LET obj == PositionalTokenizer_init("RoughPositionalCharacterLevelWordTokenizer",
                                        num_embeddings, padding_idx, max_positional)
    IN  IF language \in language_options THEN obj ELSE [obj EXCEPT !.state = "failed"]

\* Mutant: the clamp at max_positional (for max_positional - 1).
PrecisePositionize_clamp_at_max(obj, chars) ==
    Return(<<chars, [k \in 1..Len(chars) |-> Min(k - 1, obj.max_positional)]>>)

\* PrecisePositionalCharacterLevelWordTokenizer.positionize: index i from 0.
PrecisePositionalCharacterLevelWordTokenizer_positionize(obj, chars) ==
    Return(<<chars, [k \in 1..Len(chars) |-> Min(k - 1, obj.max_positional - 1)]>>)

\* Word2Syllable (utilities.py): the lists of syllables it may return for a
\* word, any split of the word into consecutive non-empty syllables whose
\* concatenation is the word.
RECURSIVE Word2Syllable(_)
Word2Syllable(word) ==
    IF Len(word) = 0 THEN {<<>>}
    ELSE UNION {{<<SubSeq(word, 1, k)>> \o rest :
                   rest \in Word2Syllable(SubSeq(word, k + 1, Len(word)))} :
                 k \in 1..Len(word)}

\* The loops of RoughPositionalCharacterLevelWordTokenizer.positionize from
\* syllable i (from 1) on: one position min(i - 1, max_positional - 1)
\* appended per character of the syllable.
RECURSIVE RoughPositionsFrom(_, _, _, _)
RoughPositionsFrom(obj, syllables, i, positions) ==
    IF i > Len(syllables) THEN positions
    ELSE RoughPositionsFrom(obj, syllables, i + 1,
           positions \o [c \in 1..Len(syllables[i]) |->
                           Min(i - 1, obj.max_positional - 1)])

\* RoughPositionalCharacterLevelWordTokenizer.positionize, given the syllables
\* that self.word2syllable returned for the word.
RoughPositionalCharacterLevelWordTokenizer_positionize(obj, chars, syllables) ==
    Return(<<chars, RoughPositionsFrom(obj, syllables, 1, <<>>)>>)

(***************************************************************************)
(* NumPy's process-wide generator.  np.random.seed(s) sets its state from  *)
(* s alone; each sample advances the state and is a function of it.  The   *)
(* Mersenne Twister and the Gaussian transform are stood for by a full-    *)
(* period congruential generator over 16 states with samples in            *)
(* {-2, -1, 1, 2}.                                                         *)
(***************************************************************************)
RngStates == 0..15

np_random_seed(seed) == seed % 16

\* The generator's cycle of states: each is (5 * st + 3) % 16 of the one
\* before it, and the first of the last.
RngCycle == <<0, 3, 2, 13, 4, 7, 6, 1, 8, 11, 10, 5, 12, 15, 14, 9>>

RngIndex(st) == CHOOSE i \in 1..16 : RngCycle[i] = st

\* The state n samples after st.
RngAdvance(st, n) == RngCycle[((RngIndex(st) - 1 + n) % 16) + 1]

RngStep(st) == RngAdvance(st, 1)

Gauss(st) ==
    LET q == ((st \div 4) + st) % 4
    IN  CASE q = 0 -> 0 - 2 [] q = 1 -> 0 - 1 [] q = 2 -> 1 [] q = 3 -> 2

\* np.random.normal(size=[rows, cols]) drawn with the generator in state st:
\* rows * cols samples, filled row by row.
np_random_normal(st, rows, cols) ==
    [k \in 1..rows |-> [j \in 1..cols |-> Gauss(RngAdvance(st, (k - 1) * cols + j))]]

\* The generator's state after that draw.
np_random_after(st, rows, cols) == RngAdvance(st, rows * cols)

\* The least B with 2^B >= n, for n >= 1.
RECURSIVE LeastPowerOfTwo(_)
LeastPowerOfTwo(n) == IF n <= 1 THEN 0 ELSE 1 + LeastPowerOfTwo((n + 1) \div 2)

\* math.ceil(math.log(n, 2)) for 1 <= n < 2^31.  math.log(n, 2) is the
\* quotient of two rounded double logarithms; in this range it is above the
\* exact logarithm by enough to change the ceiling only at n = 2^29, where
\* it is 29.000000000000004.
CeilLog2(n) == IF n = 536870912 THEN 30 ELSE LeastPowerOfTwo(n)

(***************************************************************************)
(* SignalTokenizer and SignalDerivativeTokenizer.                          *)
(***************************************************************************)
\* SignalTokenizer.__init__ up to and including np.random.seed(random_seed):
\* the fields (BaseTokenizer.__init__ validates nothing).
SignalTokenizer_fields(kind, num_embeddings, padding_idx, window_size, stride, padding_value, random_seed) ==
    [kind |-> kind, state |-> "seeded",
     num_embeddings |-> num_embeddings,
     padding_idx |-> padding_idx,
     window_size |-> window_size,
     stride |-> stride,
     padding_value |-> padding_value,
     random_seed |-> random_seed,
     random_vecs |-> <<>>]

\* The number of basis rows; math.log raises ValueError for n <= 0.
BasisRows(num_embeddings) ==
    IF num_embeddings <= 0 THEN Raise("ValueError")
    ELSE Return(CeilLog2(num_embeddings))

\* The last statement of SignalTokenizer.__init__, run with the process-wide
\* generator in state st: the instance it leaves.
SignalTokenizer_draw(obj, st) ==
    LET rows == BasisRows(obj.num_embeddings)
    IN  IF rows.outcome # "ok"
        THEN [obj EXCEPT !.state = "failed"]
        ELSE [obj EXCEPT !.state = "ready",
                         !.random_vecs = np_random_normal(st, rows.value, obj.window_size)]

\* The generator's state after that statement.
SignalTokenizer_draw_rng(obj, st) ==
    LET rows == BasisRows(obj.num_embeddings)
    IN  IF rows.outcome # "ok" THEN st
        ELSE np_random_after(st, rows.value, obj.window_size)

\* seq[a:b] for 0 <= a <= b: Python clips both ends to the length.
PySlice(seq, a, b) == SubSeq(seq, Min(a, Len(seq)) + 1, Min(b, Len(seq)))

\* Mutant: the padding put before the signal (pad_width (after, 0)).
np_pad_1d_front(seq, after, value) == [k \in 1..after |-> value] \o seq

\* np.pad(seq, (0, after), "constant", constant_values=value) for after >= 0.
np_pad_1d(seq, after, value) == seq \o [k \in 1..after |-> value]

\* Mutant: the quotient rounded down (math.floor for math.ceil).
OutputLengthFloor(signal_length, window_size, stride) ==
    ((signal_length - window_size) \div stride) + 1

\* output_length = math.ceil((signal_length - window_size) / stride + 1)
OutputLength(signal_length, window_size, stride) ==
    CeilDiv(signal_length - window_size, stride) + 1

\* padding_size = (output_length - 1) * stride - signal_length + window_size
PaddingSize(output_length, signal_length, window_size, stride) ==
    (output_length - 1) * stride - signal_length + window_size

\* signal[np.newaxis, i * stride : i * stride + window_size], i from 0.
WindowAt(padded, i, window_size, stride) ==
    PySlice(padded, i * stride, i * stride + window_size)

\* np.concatenate(rows, axis=0) of a list of (1, n) arrays: ValueError for an
\* empty list and for rows of different lengths.
np_concatenate(rows) ==
    IF Len(rows) = 0 THEN Raise("ValueError")
    ELSE IF \E k \in 1..Len(rows) : Len(rows[k]) # Len(rows[1])
         THEN Raise("ValueError")
         ELSE Return(rows)

\* The body shared by the tokenizer methods, from signal_length on.
WindowSignal(obj, signal) ==
    IF obj.stride = 0 THEN Raise("ZeroDivisionError")
    ELSE LET signal_length == Len(signal)
             output_length == OutputLength(signal_length, obj.window_size, obj.stride)
             padding_size == PaddingSize(output_length, signal_length,
                                         obj.window_size, obj.stride)
         IN  IF padding_size < 0 THEN Raise("ValueError")
             ELSE LET padded == np_pad_1d(signal, padding_size, obj.padding_value)
                  IN  np_concatenate(
                        [i \in 1..Max(output_length, 0) |->
                           WindowAt(padded, i - 1, obj.window_size, obj.stride)])

SignalTokenizer_tokenizer(obj, signal) == WindowSignal(obj, signal)

\* signal[1:] - signal[:-1]
FirstDifference(signal) ==
    [k \in 1..(Len(signal) - 1) |-> signal[k + 1] - signal[k]]

SignalDerivativeTokenizer_tokenizer(obj, signal) ==
    WindowSignal(obj, FirstDifference(signal))

\* The tokenizer method the instance's class binds.
Tokenizer(obj, signal) ==
    IF obj.kind = "SignalDerivativeTokenizer"
    THEN SignalDerivativeTokenizer_tokenizer(obj, signal)
    ELSE SignalTokenizer_tokenizer(obj, signal)

\* The dot product of a window with one basis row.
RECURSIVE DotUpTo(_, _, _)
DotUpTo(window, row, k) ==
    IF k = 0 THEN 0 ELSE DotUpTo(window, row, k - 1) + window[k] * row[k]

Dot(window, row) == DotUpTo(window, row, Len(row))

\* (window @ random_vecs.T > 0).astype(int): one bit per basis row.
BinaryVec(window, random_vecs) ==
    [k \in 1..Len(random_vecs) |-> IF Dot(window, random_vecs[k]) > 0 THEN 1 ELSE 0]

\* int("".join(str(val) for val in vector), 2) for a non-empty vector: the
\* first bit is the most significant.
RECURSIVE BitsToIntUpTo(_, _)
BitsToIntUpTo(vector, k) ==
    IF k = 0 THEN 0 ELSE 2 * BitsToIntUpTo(vector, k - 1) + vector[k]

BitsToInt(vector) == BitsToIntUpTo(vector, Len(vector))

\* The clamp of SignalTokenizer.numerize: max(number, self.padding_idx + 1).
SignalClamp(obj, number) == Max(number, obj.padding_idx + 1)

\* SignalTokenizer.numerize: int("", 2) raises ValueError when the basis has
\* no rows (num_embeddings = 1) and there is a window to convert.
SignalTokenizer_numerize(obj, tokens) ==
    IF Len(obj.random_vecs) = 0 /\ Len(tokens) > 0 THEN Raise("ValueError")
    ELSE Return([w \in 1..Len(tokens) |->
                   SignalClamp(obj,
                     PyMod(BitsToInt(BinaryVec(tokens[w], obj.random_vecs)),
                           obj.num_embeddings))])

\* The pipeline of one signal: self.numerize(self.tokenizer(signal)).
SignalTokenizer_one(obj, signal) ==
    LET t == Tokenizer(obj, signal)
    IN  IF t.outcome # "ok" THEN t ELSE SignalTokenizer_numerize(obj, t.value)

\* SignalTokenizer.__call__: the list comprehension appends one result per
\* signal in iteration order; an exception ends the whole call.
RECURSIVE SignalTokenizer_call_from(_, _, _, _)
SignalTokenizer_call_from(obj, signals, i, acc) ==
    IF i > Len(signals) THEN Return(acc)
    ELSE LET r == SignalTokenizer_one(obj, signals[i])
         IN  IF r.outcome # "ok" THEN r
             ELSE SignalTokenizer_call_from(obj, signals, i + 1, Append(acc, r.value))

\* Mutant: each result put at the front of the list (insert(0, ..) for append).
RECURSIVE SignalTokenizer_call_front(_, _, _, _)
SignalTokenizer_call_front(obj, signals, i, acc) ==
    IF i > Len(signals) THEN Return(acc)
    ELSE LET r == SignalTokenizer_one(obj, signals[i])
         IN  IF r.outcome # "ok" THEN r
             ELSE SignalTokenizer_call_front(obj, signals, i + 1, <<r.value>> \o acc)

SignalTokenizer_call_reversed(obj, signals) ==
    SignalTokenizer_call_front(obj, signals, 1, <<>>)

SignalTokenizer_call(obj, signals) == SignalTokenizer_call_from(obj, signals, 1, <<>>)

(***************************************************************************)
(* SpectrogramTokenizer.                                                   *)
(***************************************************************************)
\* The super().__init__(num_embeddings, window_size, stride, padding_value,
\* random_seed) call of SpectrogramTokenizer.__init__: five positional
\* arguments, which SignalTokenizer.__init__ receives as num_embeddings,
\* padding_idx, window_size, stride and padding_value, its random_seed left
\* at the default 0; then the three spectrogram fields.
SpectrogramTokenizer_fields(num_embeddings, sampling_rate, n_fft, hop_length, window_size, stride, padding_value, random_seed) ==
    LET obj == SignalTokenizer_draw(
                 SignalTokenizer_fields("SpectrogramTokenizer", num_embeddings,
                                        window_size, stride, padding_value,
                                        random_seed, 0),
                 np_random_seed(0))
    IN  [k \in DOMAIN obj \cup {"sampling_rate", "n_fft", "hop_length"} |->
           IF k = "sampling_rate" THEN sampling_rate
           ELSE IF k = "n_fft" THEN n_fft
           ELSE IF k = "hop_length" THEN hop_length
           ELSE obj[k]]

\* SpectrogramTokenizer.__init__: the instance it leaves.  math.log in the
\* parent's constructor raises for num_embeddings <= 0; otherwise the
\* generator is seeded again, with the random_seed given, and random_vecs
\* redrawn with window_size * window_size columns.
SpectrogramTokenizer_init(num_embeddings, sampling_rate, n_fft, hop_length, window_size, stride, padding_value, random_seed) ==
    LET obj == SpectrogramTokenizer_fields(num_embeddings, sampling_rate, n_fft,
                 hop_length, window_size, stride, padding_value, random_seed)
    IN  IF obj.state # "ready" THEN obj
        ELSE [obj EXCEPT !.random_vecs =
                np_random_normal(np_random_seed(random_seed),
                                 BasisRows(num_embeddings).value,
                                 window_size * window_size)]

\* The generator's state after SpectrogramTokenizer.__init__: both branches
\* have seeded it, so the state before does not matter.
SpectrogramTokenizer_init_rng(num_embeddings, window_size, random_seed) ==
    IF BasisRows(num_embeddings).outcome # "ok" THEN np_random_seed(0)
    ELSE np_random_after(np_random_seed(random_seed),
                         BasisRows(num_embeddings).value,
                         window_size * window_size)

\* shorten_signal as SpectrogramTokenizer.tokenizer calls it: the method is
\* declared without self, so self.shorten_signal(signal) binds the instance
\* to its parameter signal (and the signal to threshold), and signal.shape,
\* read in the first loop header, is an attribute the instance does not have.
shorten_signal(signal, threshold) == Raise("AttributeError")

\* SpectrogramTokenizer.tokenizer: shorten_signal, then the windowing of
\* SignalTokenizer.tokenizer, statement for statement.
SpectrogramTokenizer_tokenizer(obj, signal) ==
    LET shortened == shorten_signal(obj, signal)
    IN  IF shortened.outcome # "ok" THEN shortened
        ELSE SignalTokenizer_tokenizer(obj, shortened.value)

(***************************************************************************)
(* ImageTokenizer.  An image is a list of rows.                            *)
(***************************************************************************)
ImageTokenizer_fields(num_embeddings, padding_idx, window_height, window_width, stride, padding_value, random_seed) ==
    [kind |-> "ImageTokenizer", state |-> "seeded",
     num_embeddings |-> num_embeddings,
     padding_idx |-> padding_idx,
     window_height |-> window_height,
     window_width |-> window_width,
     stride |-> stride,
     padding_value |-> padding_value,
     random_seed |-> random_seed,
     random_vecs |-> <<>>]

\* The last statement of ImageTokenizer.__init__ with the generator in state st.
ImageTokenizer_draw(obj, st) ==
    LET rows == BasisRows(obj.num_embeddings)
    IN  IF rows.outcome # "ok"
        THEN [obj EXCEPT !.state = "failed"]
        ELSE [obj EXCEPT !.state = "ready",
                         !.random_vecs = np_random_normal(st, rows.value,
                                           obj.window_height * obj.window_width)]

ImageTokenizer_draw_rng(obj, st) ==
    LET rows == BasisRows(obj.num_embeddings)
    IN  IF rows.outcome # "ok" THEN st
        ELSE np_random_after(st, rows.value, obj.window_height * obj.window_width)

ImageHeight(image) == Len(image)
ImageWidth(image) == IF Len(image) = 0 THEN 0 ELSE Len(image[1])

\* np.pad(image, (before, after), "constant", constant_values=value) of a 2D
\* array: a single pair is the (before, after) widths of EVERY axis.
np_pad_2d(image, before, after, value) ==
    LET h == ImageHeight(image)
        w == ImageWidth(image)
    IN  [r \in 1..(before + h + after) |->
          [c \in 1..(before + w + after) |->
            IF r > before /\ r <= before + h /\ c > before /\ c <= before + w
            THEN image[r - before][c - before]
            ELSE value]]

\* image[y0:y1, x0:x1] for 0 <= y0 <= y1 and 0 <= x0 <= x1, ends clipped.
PySlice2D(image, y0, y1, x0, x1) ==
    LET rows == PySlice(image, y0, y1)
    IN  [r \in 1..Len(rows) |-> PySlice(rows[r], x0, x1)]

\* The column offset of cell (i, j): start_x = i * self.stride.
StartX(i, j, stride) == i * stride

\* The row offset of cell (i, j): start_y = i * self.stride.
StartY(i, j, stride) == i * stride

\* The slice read for cell (i, j), i and j from 0.
ImageWindowAt(padded, i, j, obj) ==
    PySlice2D(padded,
              StartY(i, j, obj.stride), StartY(i, j, obj.stride) + obj.window_height,
              StartX(i, j, obj.stride), StartX(i, j, obj.stride) + obj.window_width)

\* tokens[i, j] = slice: NumPy broadcasts the slice to (window_height,
\* window_width), which needs each of its sides to be the full side or 1.
Broadcastable(slice, height, width) ==
    /\ Len(slice) \in {1, height}
    /\ ImageWidth(slice) \in {1, width}

Broadcast(slice, height, width) ==
    [r \in 1..height |-> [c \in 1..width |->
        slice[IF Len(slice) = 1 THEN 1 ELSE r][IF ImageWidth(slice) = 1 THEN 1 ELSE c]]]

\* The widths handed to np.pad: (height_padding_size, width_padding_size).
ImagePadWidths(height_padding_size, width_padding_size) ==
    <<height_padding_size, width_padding_size>>

\* The widths the tokenizer computes for an image.
ImageWidths(obj, image) ==
    LET height == ImageHeight(image)
        width == ImageWidth(image)
        output_height == OutputLength(height, obj.window_height, obj.stride)
        height_padding_size == PaddingSize(output_height, height,
                                           obj.window_height, obj.stride)
        output_width == OutputLength(width, obj.window_width, obj.stride)
        width_padding_size == PaddingSize(output_width, width,
                                          obj.window_width, obj.stride)
    IN  ImagePadWidths(height_padding_size, width_padding_size)

\* The image after the np.pad statement (the widths are never negative for
\* stride >= 1).
ImagePadded(obj, image) ==
    LET widths == ImageWidths(obj, image)
    IN  np_pad_2d(image, widths[1], widths[2], obj.padding_value)

ImageTokenizer_tokenizer(obj, image) ==
    LET height == ImageHeight(image)
        width == ImageWidth(image)
        output_height == OutputLength(height, obj.window_height, obj.stride)
        output_width == OutputLength(width, obj.window_width, obj.stride)
        widths == ImageWidths(obj, image)
        padded == ImagePadded(obj, image)
        cells == {<<i, j>> : i \in 0..(output_height - 1), j \in 0..(output_width - 1)}
    IN  IF widths[1] < 0 \/ widths[2] < 0 THEN Raise("ValueError")
        ELSE IF output_height < 0 \/ output_width < 0 THEN Raise("ValueError")
        ELSE IF \E c \in cells :
                  ~Broadcastable(ImageWindowAt(padded, c[1], c[2], obj),
                                 obj.window_height, obj.window_width)
        THEN Raise("ValueError")
        ELSE Return([i \in 1..output_height |-> [j \in 1..output_width |->
                       Broadcast(ImageWindowAt(padded, i - 1, j - 1, obj),
                                 obj.window_height, obj.window_width)]])

\* ImageTokenizer.numerize never returns: reshape(.., -1) of an empty
\* collection and int("", 2) of an empty bit vector raise ValueError, and
\* "".join(x) of a vector of integers raises TypeError.
ImageTokenizer_numerize(obj, tokens) ==
    IF Len(tokens) = 0 \/ Len(tokens[1]) = 0 THEN Raise("ValueError")
    ELSE IF Len(obj.random_vecs) = 0 THEN Raise("ValueError")
    ELSE Raise("TypeError")

\* ImageTokenizer.__call__: as SignalTokenizer.__call__, over images.
RECURSIVE ImageTokenizer_call_from(_, _, _, _)
ImageTokenizer_call_from(obj, images, i, acc) ==
    IF i > Len(images) THEN Return(acc)
    ELSE LET t == ImageTokenizer_tokenizer(obj, images[i])
             r == IF t.outcome # "ok" THEN t ELSE ImageTokenizer_numerize(obj, t.value)
         IN  IF r.outcome # "ok" THEN r
             ELSE ImageTokenizer_call_from(obj, images, i + 1, Append(acc, r.value))

ImageTokenizer_call(obj, images) == ImageTokenizer_call_from(obj, images, 1, <<>>)

(***************************************************************************)
(* Inputs.                                                                 *)
(***************************************************************************)
Embeddings == (0 - 1)..MaxEmbeddings
PaddingIdxs == {0, 1}
PaddingValues == {0, 7}
Seeds == {0, 1}
SignalKinds == {"SignalTokenizer", "SignalDerivativeTokenizer"}
SignalValues == {0 - 1, 2}

SeqsUpTo(S, n) == UNION {[1..k -> S] : k \in 0..n}

Signals == SeqsUpTo(SignalValues, MaxLen)

\* The signal of length n whose sample k is k or -k, alternating.
Ramp(n) == [k \in 1..n |-> IF k % 2 = 1 THEN k ELSE 0 - k]

BatchSignals == {Ramp(n) : n \in (MaxLen - 2)..MaxLen}

\* The image of the given shape whose pixels are all different.
RampImage(h, w) == [r \in 1..h |-> [c \in 1..w |-> (r - 1) * w + c]]

Images == {RampImage(h, w) : h \in 1..MaxLen, w \in 1..MaxLen}

BatchImages == {RampImage(1, 1), RampImage(MaxLen, MaxLen)}

Strings == {"a", "hello", "the cat", "cat a the"}

Chars == {"a", "b"}
Words == SeqsUpTo(Chars, MaxWord)
PositionalEmbeddings == {1, 5}
Languages == {"en", "th", "fr"}
PositionalKinds == {"PrecisePositionalCharacterLevelWordTokenizer",
                    "RoughPositionalCharacterLevelWordTokenizer"}

SpectrogramPaddingValues == {0 - 80, 0}

Threads == {1, 2}
ThreadEmbeddings == {2, 5}
ThreadWindows == {2}

(***************************************************************************)
(* State.  self is the instance the sequential operations act on, last the *)
(* last operation on it with its argument and result, rng the state of     *)
(* NumPy's process-wide generator, threads the instances under concurrent  *)
(* construction.                                                           *)
(***************************************************************************)
Unconstructed == [kind |-> "none", state |-> "unconstructed"]

Init ==
    /\ self = Unconstructed
    /\ last = [op |-> "none"]
    /\ rng \in RngStates
    /\ threads = [t \in Threads |-> Unconstructed]

Did(op, arg, result) ==
    [op |-> op, arg |-> arg, outcome |-> result.outcome, value |-> result.value]

IsText(obj) == obj.kind = "WordTokenizer"
IsPositional(obj) == obj.kind \in PositionalKinds
IsSignal(obj) == obj.kind \in SignalKinds
IsSpectrogram(obj) == obj.kind = "SpectrogramTokenizer"
IsImage(obj) == obj.kind = "ImageTokenizer"

(***************************************************************************)
(* Construction.                                                           *)
(***************************************************************************)
TextConstruct ==
    /\ self.state = "unconstructed"
    /\ \E n \in Embeddings, p \in PaddingIdxs, iw \in BOOLEAN :
         self' = TextTokenizer_init("WordTokenizer", n, p, iw)
    /\ UNCHANGED <<last, rng, threads>>

SignalConstruct ==
    /\ self.state = "unconstructed"
    /\ \E kind \in SignalKinds, n \in Embeddings, p \in PaddingIdxs,
          w \in 1..MaxWindow, s \in 0..MaxStride, pv \in PaddingValues,
          seed \in Seeds :
         LET obj == SignalTokenizer_fields(kind, n, p, w, s, pv, seed)
             st == np_random_seed(seed)
         IN  /\ self' = SignalTokenizer_draw(obj, st)
             /\ rng' = SignalTokenizer_draw_rng(obj, st)
    /\ UNCHANGED <<last, threads>>

ImageConstruct ==
    /\ self.state = "unconstructed"
    /\ \E n \in Embeddings, p \in PaddingIdxs,
          wh \in 1..MaxWindow, ww \in 1..MaxWindow, s \in 1..MaxStride,
          seed \in Seeds :
         LET obj == ImageTokenizer_fields(n, p, wh, ww, s, 0, seed)
             st == np_random_seed(seed)
         IN  /\ self' = ImageTokenizer_draw(obj, st)
             /\ rng' = ImageTokenizer_draw_rng(obj, st)
    /\ UNCHANGED <<last, threads>>

PreciseConstruct ==
    /\ self.state = "unconstructed"
    /\ \E n \in PositionalEmbeddings, p \in PaddingIdxs, mp \in 0..MaxPositional :
         self' = PositionalTokenizer_init(
                   "PrecisePositionalCharacterLevelWordTokenizer", n, p, mp)
    /\ UNCHANGED <<last, rng, threads>>

RoughConstruct ==
    /\ self.state = "unconstructed"
    /\ \E n \in PositionalEmbeddings, p \in PaddingIdxs, mp \in 0..MaxPositional,
          language \in Languages :
         self' = RoughPositionalTokenizer_init(n, p, mp, language)
    /\ UNCHANGED <<last, rng, threads>>

\* SpectrogramTokenizer(num_embeddings, window_size=w, stride=s,
\* padding_value=pv, random_seed=seed), the other parameters at their defaults;
\* last keeps the named construction parameters of the call.
SpectrogramConstruct ==
    /\ self.state = "unconstructed"
    /\ \E n \in Embeddings, w \in 1..MaxWindow, s \in 1..MaxStride,
          pv \in SpectrogramPaddingValues, seed \in Seeds :
         LET obj == SpectrogramTokenizer_init(n, 22050, 2000, 100, w, s, pv, seed)
         IN  /\ self' = obj
             /\ rng' = SpectrogramTokenizer_init_rng(n, w, seed)
             /\ last' = Did("__init__",
                            [num_embeddings |-> n, window_size |-> w, stride |-> s,
                             padding_value |-> pv, random_seed |-> seed],
                            IF obj.state = "ready" THEN Return(<<>>)
                            ELSE Raise("ValueError"))
    /\ UNCHANGED threads

(***************************************************************************)
(* Operations on a constructed instance.  No operation writes a field of   *)
(* the instance, so the result of an operation is the same whatever was    *)
(* called before it; a behaviour records the first one.                    *)
(***************************************************************************)
Ready == self.state = "ready" /\ last.op = "none"

TextNumerize ==
    /\ Ready /\ IsText(self)
    /\ \E token \in Tokens :
         last' = Did("numerize", token, HashingBasedTokenizer_numerize(self, token))
    /\ UNCHANGED <<self, rng, threads>>

TextCall ==
    /\ Ready /\ IsText(self)
    /\ \E inputs \in SeqsUpTo(Strings, MaxBatch) :
         last' = Did("call", inputs, BaseTokenizer_call(self, inputs))
    /\ UNCHANGED <<self, rng, threads>>

SignalTokenize ==
    /\ Ready /\ IsSignal(self)
    /\ \E signal \in Signals :
         last' = Did("tokenizer", signal, Tokenizer(self, signal))
    /\ UNCHANGED <<self, rng, threads>>

\* numerize is given the windows that tokenizer returns for some signal.
SignalNumerize ==
    /\ Ready /\ IsSignal(self)
    /\ \E signal \in Signals :
         LET t == Tokenizer(self, signal)
         IN  /\ t.outcome = "ok"
             /\ last' = Did("numerize", t.value, SignalTokenizer_numerize(self, t.value))
    /\ UNCHANGED <<self, rng, threads>>

SignalCall ==
    /\ Ready /\ IsSignal(self)
    /\ \E signals \in SeqsUpTo(BatchSignals, MaxBatch) :
         last' = Did("call", signals, SignalTokenizer_call(self, signals))
    /\ UNCHANGED <<self, rng, threads>>

ImageTokenize ==
    /\ Ready /\ IsImage(self)
    /\ \E image \in Images :
         last' = Did("tokenizer", image, ImageTokenizer_tokenizer(self, image))
    /\ UNCHANGED <<self, rng, threads>>

ImageNumerize ==
    /\ Ready /\ IsImage(self)
    /\ \E image \in Images :
         LET t == ImageTokenizer_tokenizer(self, image)
         IN  /\ t.outcome = "ok"
             /\ last' = Did("numerize", t.value, ImageTokenizer_numerize(self, t.value))
    /\ UNCHANGED <<self, rng, threads>>

ImageCall ==
    /\ Ready /\ IsImage(self)
    /\ \E images \in SeqsUpTo(BatchImages, MaxBatch) :
         last' = Did("call", images, ImageTokenizer_call(self, images))
    /\ UNCHANGED <<self, rng, threads>>

PrecisePositionize ==
    /\ Ready /\ self.kind = "PrecisePositionalCharacterLevelWordTokenizer"
    /\ \E chars \in Words :
         last' = Did("positionize", [chars |-> chars, syllables |-> <<>>],
                     PrecisePositionalCharacterLevelWordTokenizer_positionize(self, chars))
    /\ UNCHANGED <<self, rng, threads>>

RoughPositionize ==
    /\ Ready /\ self.kind = "RoughPositionalCharacterLevelWordTokenizer"
    /\ \E chars \in Words : \E syllables \in Word2Syllable(chars) :
         last' = Did("positionize", [chars |-> chars, syllables |-> syllables],
                     RoughPositionalCharacterLevelWordTokenizer_positionize(
                       self, chars, syllables))
    /\ UNCHANGED <<self, rng, threads>>

\* tokenizer on the instance just constructed; last keeps the construction
\* parameters beside the signal.
SpectrogramTokenize ==
    /\ self.state = "ready" /\ IsSpectrogram(self) /\ last.op = "__init__"
    /\ \E signal \in Signals :
         last' = Did("tokenizer", [signal |-> signal, constructed |-> last.arg],
                     SpectrogramTokenizer_tokenizer(self, signal))
    /\ UNCHANGED <<self, rng, threads>>

Next ==
    \/ TextConstruct
    \/ PreciseConstruct
    \/ RoughConstruct
    \/ PrecisePositionize
    \/ RoughPositionize
    \/ SpectrogramConstruct
    \/ SpectrogramTokenize
    \/ SignalConstruct
    \/ ImageConstruct
    \/ TextNumerize
    \/ TextCall
    \/ SignalTokenize
    \/ SignalNumerize
    \/ SignalCall
    \/ ImageTokenize
    \/ ImageNumerize
    \/ ImageCall

Spec == Init /\ [][Next]_vars

(***************************************************************************)
(* Concurrent construction: the two statements that end __init__,          *)
(* np.random.seed(random_seed) and the np.random.normal draw, are separate *)
(* steps on the one process-wide generator, and other code of the process  *)
(* may seed it or draw from it in between.                                 *)
(***************************************************************************)
ThreadSeed(t) ==
    /\ threads[t].state = "unconstructed"
    /\ \E n \in ThreadEmbeddings, w \in ThreadWindows, seed \in Seeds :
         /\ threads' = [threads EXCEPT ![t] =
                          SignalTokenizer_fields("SignalTokenizer", n, 0, w, 1, 0, seed)]
         /\ rng' = np_random_seed(seed)
    /\ UNCHANGED <<self, last>>

ThreadDraw(t) ==
    /\ threads[t].state = "seeded"
    /\ threads' = [threads EXCEPT ![t] = SignalTokenizer_draw(threads[t], rng)]
    /\ rng' = SignalTokenizer_draw_rng(threads[t], rng)
    /\ UNCHANGED <<self, last>>

OtherSeed ==
    /\ \E seed \in Seeds : rng' = np_random_seed(seed)
    /\ UNCHANGED <<self, last, threads>>

OtherDraw ==
    /\ rng' = RngStep(rng)
    /\ UNCHANGED <<self, last, threads>>

NextRng ==
    \/ \E t \in Threads : ThreadSeed(t)
    \/ \E t \in Threads : ThreadDraw(t)
    \/ OtherSeed
    \/ OtherDraw

SpecRng == Init /\ [][NextRng]_vars

(***************************************************************************)
(* Properties.                                                             *)
(***************************************************************************)
Called(op) == self.state = "ready" /\ last.op = op
Returned(op) == Called(op) /\ last.outcome = "ok"

\* C1: every id that HashingBasedTokenizer.numerize returns lies in
\* [padding_idx + |special_tokens|, num_embeddings), for every configuration
\* a text facade can be constructed with (here: those with a positive
\* num_embeddings).
C1_ReservedRange ==
    (IsText(self) /\ Returned("numerize") /\ self.num_embeddings >= 1) =>
        /\ self.padding_idx + Len(special_tokens) <= last.value
        /\ last.value < self.num_embeddings

\* ceil((L - W) / S + 1) for S >= 1, stated without the model's arithmetic:
\* the least integer n with n * S >= L - W + S.
CeilWindows(L, W, S) ==
    CHOOSE n \in (0 - (MaxWindow + 1))..(MaxLen + 2) :
        /\ n * S >= L - W + S
        /\ (n - 1) * S < L - W + S

\* Sample k (from 1) of the signal after padding to any length.
PaddedSample(signal, k, padding_value) ==
    IF k <= Len(signal) THEN signal[k] ELSE padding_value

\* The windows are exactly n windows of W elements, window i (from 0) holding
\* elements [i*S, i*S + W) of the signal padded at its end.
WindowsAre(windows, n, signal, W, S, padding_value) ==
    /\ Len(windows) = n
    /\ \A i \in 1..Len(windows) :
         /\ Len(windows[i]) = W
         /\ \A k \in 1..Len(windows[i]) :
              windows[i][k] = PaddedSample(signal, (i - 1) * S + k, padding_value)

OnSignalTokenizer(op) == self.kind = "SignalTokenizer" /\ Called(op)

\* C2 as stated: for any signal length L, window_size W and stride S >= 1,
\* SignalTokenizer.tokenizer returns exactly ceil((L - W)/S + 1) windows of W
\* elements, window i holding elements [i*S, i*S + W) of the padded signal.
C2_WindowShapeAnyLength ==
    (OnSignalTokenizer("tokenizer") /\ self.stride >= 1) =>
        /\ last.outcome = "ok"
        /\ WindowsAre(last.value,
                      CeilWindows(Len(last.arg), self.window_size, self.stride),
                      last.arg, self.window_size, self.stride, self.padding_value)

\* C2 amended: for W >= 1 and S >= 1, with n = ceil((L - W)/S + 1), the
\* padding size (n - 1)*S - L + W is never negative; when n >= 1 (always so
\* for L >= W) the call returns exactly n windows of W elements, window i
\* holding elements [i*S, i*S + W) of the signal padded at its end; when
\* n <= 0 it returns nothing and ends in ValueError.
C2_WindowShape ==
    (OnSignalTokenizer("tokenizer") /\ self.stride >= 1) =>
        LET L == Len(last.arg)
            n == CeilWindows(L, self.window_size, self.stride)
        IN  /\ (n - 1) * self.stride - L + self.window_size >= 0
            /\ IF n >= 1
               THEN /\ last.outcome = "ok"
                    /\ WindowsAre(last.value, n, last.arg, self.window_size,
                                  self.stride, self.padding_value)
               ELSE last.outcome = "ValueError"

\* C2 witness: a call that pads, with at least two windows, the last one reaching past the
\* end of the signal.
C2_Witness ==
    /\ OnSignalTokenizer("tokenizer") /\ last.outcome = "ok"
    /\ Len(last.value) >= 2
    /\ (Len(last.value) - 1) * self.stride + self.window_size > Len(last.arg)
    /\ self.stride > 1

\* Every sample k of the signal is in some window i at offset k - i*S.
Covered(windows, signal, S) ==
    \A k \in 1..Len(signal) :
        \E i \in 1..Len(windows) :
            LET off == k - (i - 1) * S
            IN  /\ off \in 1..Len(windows[i])
                /\ windows[i][off] = signal[k]

\* C3 as stated: for any L, W and S, every sample of the signal appears in
\* at least one of the windows SignalTokenizer.tokenizer returns.
C3_CoverageAnyStride ==
    (OnSignalTokenizer("tokenizer") /\ last.outcome = "ok") =>
        Covered(last.value, last.arg, self.stride)

\* C3 amended: whenever SignalTokenizer.tokenizer returns (ceil((L - W)/S + 1)
\* >= 1) and stride <= window_size, every sample signal[k] appears unchanged
\* in a returned window i at offset k - i*S.
C3_Coverage ==
    (OnSignalTokenizer("tokenizer") /\ last.outcome = "ok"
        /\ self.stride <= self.window_size) =>
        Covered(last.value, last.arg, self.stride)

\* C3 witness: overlapping windows over a signal longer than one window.
C3_Witness ==
    /\ OnSignalTokenizer("tokenizer") /\ last.outcome = "ok"
    /\ self.stride < self.window_size
    /\ Len(last.arg) > self.window_size
    /\ Len(last.value) >= 3

\* C4: the basis of every constructed instance is the one its own seed and
\* shape give, whatever else seeded or drew from the process-wide generator.
C4_IsolatedBasis ==
    \A t \in Threads :
        threads[t].state = "ready" =>
            threads[t].random_vecs =
                np_random_normal(np_random_seed(threads[t].random_seed),
                                 CeilLog2(threads[t].num_embeddings),
                                 threads[t].window_size)

\* C5: the id of every window is max(b mod num_embeddings, padding_idx +
\* |special_tokens|), b the number whose bits are the signs of the dot
\* products with the basis rows, row 0 most significant.
C5_LshClamp ==
    (IsSignal(self) /\ Returned("numerize")) =>
        \A w \in 1..Len(last.arg) :
            last.value[w] =
                Max(PyMod(BitsToInt(BinaryVec(last.arg[w], self.random_vecs)),
                          self.num_embeddings),
                    self.padding_idx + Len(special_tokens))

\* C6: cell (i, j) of ImageTokenizer.tokenizer's result holds rows
\* [i*stride, i*stride + window_height) and columns [j*stride, j*stride +
\* window_width) of the padded image.
C6_PerAxisOffsets ==
    (IsImage(self) /\ Returned("tokenizer")) =>
        LET padded == ImagePadded(self, last.arg)
        IN  \A i \in 1..Len(last.value) : \A j \in 1..Len(last.value[i]) :
                last.value[i][j] =
                    PySlice2D(padded,
                              (i - 1) * self.stride,
                              (i - 1) * self.stride + self.window_height,
                              (j - 1) * self.stride,
                              (j - 1) * self.stride + self.window_width)

\* C7: the padded image has shape (H + height_padding_size, Wd +
\* width_padding_size), each axis padded by its own size after the data, the
\* pixel (r, c) still at (r, c), and every window slice inside it.
C7_PerAxisPadding ==
    (IsImage(self) /\ Called("tokenizer")) =>
        LET image == last.arg
            padded == ImagePadded(self, image)
            H == ImageHeight(image)
            Wd == ImageWidth(image)
            output_height == CeilWindows(H, self.window_height, self.stride)
            output_width == CeilWindows(Wd, self.window_width, self.stride)
            height_padding_size == (output_height - 1) * self.stride - H + self.window_height
            width_padding_size == (output_width - 1) * self.stride - Wd + self.window_width
        IN  /\ ImageHeight(padded) = H + height_padding_size
            /\ ImageWidth(padded) = Wd + width_padding_size
            /\ \A r \in 1..H : \A c \in 1..Wd : padded[r][c] = image[r][c]
            /\ (output_height - 1) * self.stride + self.window_height <= ImageHeight(padded)
            /\ (output_width - 1) * self.stride + self.window_width <= ImageWidth(padded)

\* C8: a signal shorter than window_size is rejected: the tokenizer of a
\* signal facade never returns a window collection for it (any exception
\* counted as a rejection).
C8_ShortInputRejected ==
    (IsSignal(self) /\ Called("tokenizer") /\ self.stride >= 1
        /\ Len(last.arg) < self.window_size) =>
        last.outcome # "ok"

\* C9: no instance is ready with num_embeddings <= 0.
C9_InvalidVocabularyRejected ==
    self.state = "ready" => self.num_embeddings > 0

\* The pipeline of one input, by the class of the instance.
One(obj, x) ==
    IF IsText(obj) THEN WordTokenizer_one(obj, x)
    ELSE IF IsSignal(obj) THEN SignalTokenizer_one(obj, x)
    ELSE LET t == ImageTokenizer_tokenizer(obj, x)
         IN  IF t.outcome # "ok" THEN t ELSE ImageTokenizer_numerize(obj, t.value)

\* C10: a call that returns gives exactly one result per input, the i-th the
\* result of the single-item pipeline on the i-th input alone.
C10_BatchOrder ==
    Returned("call") =>
        /\ Len(last.value) = Len(last.arg)
        /\ \A i \in 1..Len(last.arg) :
             /\ One(self, last.arg[i]).outcome = "ok"
             /\ last.value[i] = One(self, last.arg[i]).value

\* C10 witness: a batch of two different signals with different results.
C10_Witness ==
    /\ IsSignal(self) /\ Returned("call")
    /\ Len(last.arg) >= 2
    /\ last.arg[1] # last.arg[2]
    /\ last.value[1] # last.value[2]

\* The number of characters in the first j syllables.
RECURSIVE SyllableEnd(_, _)
SyllableEnd(syllables, j) ==
    IF j = 0 THEN 0 ELSE SyllableEnd(syllables, j - 1) + Len(syllables[j])

\* The index (from 0) of the syllable that holds character k (from 1).
SyllableOf(syllables, k) ==
    (CHOOSE j \in 1..Len(syllables) :
        SyllableEnd(syllables, j - 1) < k /\ k <= SyllableEnd(syllables, j)) - 1

\* The result of positionize is the characters with a position list of the
\* same length, every position in [0, max_positional), position i being
\* min(i, max_positional - 1) under the precise policy and min(j,
\* max_positional - 1), j the character's syllable, under the rough one.
PositionsAre ==
    LET chars == last.arg.chars
        positions == last.value[2]
    IN  /\ last.outcome = "ok"
        /\ last.value[1] = chars
        /\ Len(positions) = Len(chars)
        /\ \A k \in 1..Len(positions) :
             /\ 0 <= positions[k] /\ positions[k] < self.max_positional
             /\ positions[k] =
                  IF self.kind = "PrecisePositionalCharacterLevelWordTokenizer"
                  THEN Min(k - 1, self.max_positional - 1)
                  ELSE Min(SyllableOf(last.arg.syllables, k), self.max_positional - 1)

\* C11 as stated: for every word and every configured max_positional,
\* positionize returns a position list of the word's length with every
\* position in [0, max_positional), clamped per policy.
C11_PositionsAnyMax ==
    (IsPositional(self) /\ Called("positionize")) => PositionsAre

\* C11 amended: the same for every configured max_positional >= 1 (with
\* max_positional <= 0 the clamp max_positional - 1 is negative and so is
\* every position it yields).
C11_Positions ==
    (IsPositional(self) /\ Called("positionize") /\ self.max_positional >= 1) =>
        PositionsAre

\* C11 witness: a word of the precise policy longer than max_positional, its
\* last positions clamped.
C11_Witness ==
    /\ self.kind = "PrecisePositionalCharacterLevelWordTokenizer"
    /\ Called("positionize") /\ last.outcome = "ok"
    /\ self.max_positional >= 2
    /\ Len(last.arg.chars) > self.max_positional
    /\ last.value[2][Len(last.arg.chars)] = self.max_positional - 1

\* C12: after SpectrogramTokenizer(num_embeddings, window_size=W, stride=S,
\* padding_value=p, random_seed=r) the instance's fields are window_size = W,
\* stride = S, padding_value = p and padding_idx = 0, and tokenizer() then
\* returns windows of exactly W samples each.
C12_ConfigBinding ==
    /\ (IsSpectrogram(self) /\ Called("__init__")) =>
          /\ self.window_size = last.arg.window_size
          /\ self.stride = last.arg.stride
          /\ self.padding_value = last.arg.padding_value
          /\ self.padding_idx = 0
    /\ (IsSpectrogram(self) /\ Called("tokenizer")) =>
          /\ last.outcome = "ok"
          /\ \A i \in 1..Len(last.value) :
               Len(last.value[i]) = last.arg.constructed.window_size

=============================================================================
